---- MODULE Spec2Model ----
(***************************************************************************)
(* CrustDataRAG (src/rag_system.py): chunking, embedding, the pickle cache,*)
(* cosine-similarity search and answer composition, as a state machine.    *)
(*                                                                         *)
(* Text is a sequence of one-character strings.  The remote embedding and  *)
(* chat-completion services and the file system are the environment: each  *)
(* call draws the service's outcome from a small set.                      *)
(***************************************************************************)
EXTENDS Integers, Sequences, FiniteSets, TLC

VARIABLES
    documents,        \* self.documents: the chunk list
    embeddings_cache, \* self.embeddings_cache: the embedding list
    cache_file,       \* cache_dir/embeddings_cache.pkl on disk
    call,             \* the last operation and its arguments
    ret,              \* what that operation did and returned
    chunk_in,         \* arguments of a direct chunk_text call
    chunk_out,        \* its outcome
    session_state     \* st.session_state of the chat page: api_key set, chat_history

vars == <<documents, embeddings_cache, cache_file, call, ret, chunk_in, chunk_out, session_state>>

----------------------------------------------------------------------------
(* Bounds of the model *)

MaxTextLen == 4
MaxWindow == 4
MaxPaths == 2
MaxTopK == 3
MaxHistory == 6
MaxTurns == 4

(* Program constants *)

default_max_tokens == 512
default_overlap == 50
batch_size == 100
threshold_num == 3
threshold_den == 10
default_top_k == 3
history_window == 5

----------------------------------------------------------------------------
(* Python helpers *)

Min(a, b) == IF a <= b THEN a ELSE b
Max(a, b) == IF a >= b THEN a ELSE b

\* One bound of a Python slice s[..x..] on a sequence of length n, 0-based.
PyIndex(x, n) == IF x < 0 THEN Max(x + n, 0) ELSE Min(x, n)

\* s[lo:hi]
PySlice(s, lo, hi) ==
    LET n == Len(s)
        l == PyIndex(lo, n)
        h == PyIndex(hi, n)
    IN  IF h <= l THEN <<>> ELSE SubSeq(s, l + 1, h)

\* s[lo:]
PySliceFrom(s, lo) == PySlice(s, lo, Len(s))

\* s[::-1]
Reverse(s) == [i \in 1..Len(s) |-> s[Len(s) + 1 - i]]

\* range(0, n, step) as the sequence of its values; step = 0 raises in
\* Python and is decided by the caller.
PyRange(n, step) ==
    IF step <= 0 \/ n <= 0 THEN <<>>
    ELSE [k \in 1..((n + step - 1) \div step) |-> (k - 1) * step]

RECURSIVE Flatten(_)
Flatten(ss) == IF ss = <<>> THEN <<>> ELSE Head(ss) \o Flatten(Tail(ss))

Whitespace == {" "}

RECURSIVE LStrip(_)
LStrip(s) == IF s # <<>> /\ Head(s) \in Whitespace THEN LStrip(Tail(s)) ELSE s

\* str.strip()
Strip(s) == Reverse(LStrip(Reverse(LStrip(s))))

----------------------------------------------------------------------------
(* The tokenizer: a byte-pair encoding with the single merge a+b -> ab,    *)
(* standing for cl100k_base.  encode merges greedily from the left, decode *)
(* concatenates the tokens' characters.                                    *)

Chars == {"a", "b", " "}

TokenChars(t) == IF t = "ab" THEN <<"a", "b">> ELSE <<t>>

RECURSIVE encode(_)
encode(text) ==
    IF text = <<>> THEN <<>>
    ELSE IF Len(text) >= 2 /\ text[1] = "a" /\ text[2] = "b"
         THEN <<"ab">> \o encode(SubSeq(text, 3, Len(text)))
         ELSE <<text[1]>> \o encode(Tail(text))

decode(tokens) == Flatten([i \in 1..Len(tokens) |-> TokenChars(tokens[i])])

----------------------------------------------------------------------------
(* chunk_text: windows of max_tokens tokens at stride max_tokens - overlap.*)
(* range() raises ValueError on a zero step and is empty on a negative one.*)

\* token_windows stepping by max_tokens, the overlap ignored.
token_windows_disjoint(tokens, max_tokens, overlap) ==
    LET starts == PyRange(Len(tokens), max_tokens)
    IN  [k \in 1..Len(starts) |->
            [start |-> starts[k],
             tokens |-> PySlice(tokens, starts[k], starts[k] + max_tokens)]]

\* Lines 37-39: the loop's windows tokens[i:i + max_tokens], each with the
\* index i it starts at.
token_windows(tokens, max_tokens, overlap) ==
    LET starts == PyRange(Len(tokens), max_tokens - overlap)
    IN  [k \in 1..Len(starts) |->
            [start |-> starts[k],
             tokens |-> PySlice(tokens, starts[k], starts[k] + max_tokens)]]

\* chunk_text with the loop running to len(tokens) inclusive.
chunk_text_inclusive(text, max_tokens, overlap) ==
    LET tokens == encode(text)
        step == max_tokens - overlap
        starts == PyRange(Len(tokens) + 1, step)
        windows == IF step = 0 THEN <<>>
                   ELSE [k \in 1..Len(starts) |->
                           [start |-> starts[k],
                            tokens |-> PySlice(tokens, starts[k], starts[k] + max_tokens)]]
    IN  [raised |-> step = 0,
         windows |-> windows,
         chunks |-> [k \in 1..Len(windows) |-> decode(windows[k].tokens)]]

chunk_text(text, max_tokens, overlap) ==
    LET tokens == encode(text)
        step == max_tokens - overlap
        windows == IF step = 0 THEN <<>> ELSE token_windows(tokens, max_tokens, overlap)
    IN  [raised |-> step = 0,
         windows |-> windows,
         chunks |-> [k \in 1..Len(windows) |-> decode(windows[k].tokens)]]

----------------------------------------------------------------------------
(* The file system the loader reads.  open() fails on missing.txt.         *)

Paths == {"missing.txt", "api.txt", "guide.txt"}

Readable(p) == p # "missing.txt"

FileText(p) ==
    CASE p = "api.txt" -> <<"a", "b">>
      [] p = "guide.txt" -> <<" ", "b", " ", "a">>
      [] OTHER -> <<>>

PathLists == UNION {[1..n -> Paths] : n \in 0..MaxPaths}

----------------------------------------------------------------------------
(* The embedding service: one vector per input, in order.  The vector of a *)
(* text is fixed by the text; whether a request fails is the environment's *)
(* choice.  Vectors are pairs of integers.                                 *)

EmbeddingOf(text) ==
    CASE text = <<"a", "b">> -> <<3, 1>>
      [] text = <<"b", " ", "a">> -> <<1, 3>>
      [] OTHER -> <<1, 1>>

\* What the service may answer for a query: a vector, or a failure.
QueryVectors == {<<1, 0>>, <<1, 1>>, <<4, -1>>, <<-1, 0>>}

QueryEmbeddings ==
    {[ok |-> TRUE, vec |-> v] : v \in QueryVectors} \cup {[ok |-> FALSE, vec |-> <<0, 0>>]}

\* _create_embeddings: embeddings_cache is reset, then extended batch by
\* batch; batch number fail_batch (0: none) raises and the exception is
\* re-raised with the earlier batches' vectors left in embeddings_cache.
create_embeddings(docs, fail_batch) ==
    LET starts == PyRange(Len(docs), batch_size)
        failed == fail_batch \in 1..Len(starts)
        done == IF failed THEN starts[fail_batch] ELSE Len(docs)
    IN  [raised |-> failed,
         calls |-> IF failed THEN fail_batch ELSE Len(starts),
         embeddings |-> [i \in 1..done |-> EmbeddingOf(docs[i])]]

----------------------------------------------------------------------------
(* The cache artifact: absent, a file pickle.load fails on, or a pickled   *)
(* dict with the keys documents and embeddings.                            *)

Absent == [kind |-> "absent", documents |-> <<>>, embeddings |-> <<>>]
Corrupt == [kind |-> "corrupt", documents |-> <<>>, embeddings |-> <<>>]
Pickled(docs, embs) == [kind |-> "dict", documents |-> docs, embeddings |-> embs]

\* Artifacts another writer may leave in the cache directory.
ForeignArtifacts ==
    { Corrupt,
      Pickled(<<<<"a", "b">>, <<"b">>>>, <<<<3, 1>>>>),
      Pickled(<<<<"a", "b">>>>, <<<<3, 1>>, <<1, 3>>>>),
      Pickled(<<>>, <<<<3, 1>>>>),
      Pickled(<<<<"a", "b">>>>, <<>>) }

WriteOutcomes == {"ok", "open_failed", "dump_failed"}

----------------------------------------------------------------------------
(* Records of the last call *)

NoCall ==
    [op |-> "idle", file_paths |-> <<>>, force_reload |-> FALSE,
     query |-> <<>>, top_k |-> 0, history |-> <<>>]

NoRet ==
    [outcome |-> "none", error |-> "none", cache_hit |-> FALSE,
     files_read |-> FALSE, embed_calls |-> 0, embed_failed |-> FALSE,
     cache_write |-> "none", results |-> <<>>, answer |-> "none",
     chat_calls |-> 0, chat_failed |-> FALSE, messages |-> <<>>,
     follows |-> "none"]

----------------------------------------------------------------------------
(* load_documents *)

\* Lines 80-90: each readable file whose stripped text is non-empty adds its
\* chunks, in order; a file that cannot be opened is skipped.
RECURSIVE read_files(_)
read_files(file_paths) ==
    IF file_paths = <<>> THEN <<>>
    ELSE LET p == Head(file_paths)
             text == Strip(FileText(p))
             c == chunk_text(text, default_max_tokens, default_overlap)
         IN  (IF Readable(p) /\ text # <<>> /\ ~c.raised THEN c.chunks ELSE <<>>)
             \o read_files(Tail(file_paths))

\* read_files on every list of paths a caller passes, computed once.
chunks_of == [file_paths \in PathLists |-> read_files(file_paths)]

\* cache_read with the force_reload test inverted.
cache_read_inverted(cf, force_reload) == force_reload /\ cf.kind = "dict"

\* Lines 67-77: the cache artifact is consulted when force_reload is false
\* and the file exists; a file pickle.load fails on assigns nothing.
cache_read(cf, force_reload) == ~force_reload /\ cf.kind = "dict"

\* Line 73: both lists non-empty.
cache_hit(cf, force_reload) ==
    cache_read(cf, force_reload) /\ cf.documents # <<>> /\ cf.embeddings # <<>>

\* cache_save that never writes.
cache_save_skipped(cf, docs, embs, write) == cf

\* Lines 98-106: the artifact after the save; open() truncates, so a dump
\* that fails leaves a file pickle.load fails on.
cache_save(cf, docs, embs, write) ==
    CASE write = "ok" -> Pickled(docs, embs)
      [] write = "dump_failed" -> Corrupt
      [] OTHER -> cf

\* load_documents writing the artifact although an embedding batch failed.
load_documents_saves_first(embs, cf, file_paths, force_reload, fail_batch, write) ==
    LET docs == chunks_of[file_paths]
        emb0 == IF cache_read(cf, force_reload) THEN cf.embeddings ELSE embs
        e == create_embeddings(docs, fail_batch)
    IN  IF cache_hit(cf, force_reload)
        THEN [documents |-> cf.documents, embeddings_cache |-> cf.embeddings,
              cache_file |-> cf,
              ret |-> [NoRet EXCEPT !.outcome = "returned", !.cache_hit = TRUE]]
        ELSE IF docs = <<>>
        THEN [documents |-> <<>>, embeddings_cache |-> emb0, cache_file |-> cf,
              ret |-> [NoRet EXCEPT !.outcome = "raised", !.error = "ValueError",
                                    !.files_read = TRUE]]
        ELSE IF e.raised
        THEN [documents |-> docs, embeddings_cache |-> e.embeddings,
              cache_file |-> cache_save(cf, docs, e.embeddings, "ok"),
              ret |-> [NoRet EXCEPT !.outcome = "raised", !.error = "EmbeddingError",
                                    !.files_read = TRUE, !.embed_calls = e.calls,
                                    !.embed_failed = TRUE]]
        ELSE [documents |-> docs, embeddings_cache |-> e.embeddings,
              cache_file |-> cache_save(cf, docs, e.embeddings, write),
              ret |-> [NoRet EXCEPT !.outcome = "returned", !.files_read = TRUE,
                                    !.embed_calls = e.calls, !.cache_write = write]]

\* The whole call: the state it leaves and what it did.  embs is the
\* embedding list before the call, fail_batch and write the environment.
load_documents(embs, cf, file_paths, force_reload, fail_batch, write) ==
    LET docs == chunks_of[file_paths]
        emb0 == IF cache_read(cf, force_reload) THEN cf.embeddings ELSE embs
        e == create_embeddings(docs, fail_batch)
    IN  IF cache_hit(cf, force_reload)
        THEN [documents |-> cf.documents, embeddings_cache |-> cf.embeddings,
              cache_file |-> cf,
              ret |-> [NoRet EXCEPT !.outcome = "returned", !.cache_hit = TRUE]]
        ELSE IF docs = <<>>
        THEN [documents |-> <<>>, embeddings_cache |-> emb0, cache_file |-> cf,
              ret |-> [NoRet EXCEPT !.outcome = "raised", !.error = "ValueError",
                                    !.files_read = TRUE]]
        ELSE IF e.raised
        THEN [documents |-> docs, embeddings_cache |-> e.embeddings, cache_file |-> cf,
              ret |-> [NoRet EXCEPT !.outcome = "raised", !.error = "EmbeddingError",
                                    !.files_read = TRUE, !.embed_calls = e.calls,
                                    !.embed_failed = TRUE]]
        ELSE [documents |-> docs, embeddings_cache |-> e.embeddings,
              cache_file |-> cache_save(cf, docs, e.embeddings, write),
              ret |-> [NoRet EXCEPT !.outcome = "returned", !.files_read = TRUE,
                                    !.embed_calls = e.calls, !.cache_write = write]]

\* A query's result is outstanding until the caller takes it (Return).
Busy == call.op \in {"search", "answer"}
Idle == call.op = "idle"

\* Whether the call gets as far as _create_embeddings (line 95).
reaches_embedding(cf, file_paths, force_reload) ==
    ~cache_hit(cf, force_reload) /\ chunks_of[file_paths] # <<>>

\* The number of embedding batches a load of file_paths sends.
Batches(file_paths) == Len(PyRange(Len(chunks_of[file_paths]), batch_size))

\* What a load call follows, kept with its result: the removal of the
\* cache artifact, or a load of the same paths that returned, both with
\* force_reload false.
Follows(file_paths, force_reload) ==
    IF call.op = "delete_cache" THEN "delete_cache"
    ELSE IF /\ call.op = "load" /\ ret.outcome = "returned"
            /\ ~call.force_reload /\ ~force_reload
            /\ call.file_paths = file_paths
    THEN "same_load"
    ELSE "other"

\* The environment's choices are drawn where the call consults them: a
\* failing batch when it embeds, the outcome of the save when it saves.
Load ==
    /\ ~Busy
    /\ \E file_paths \in PathLists, force_reload \in BOOLEAN :
        \E fail_batch \in IF reaches_embedding(cache_file, file_paths, force_reload)
                           THEN 0..Batches(file_paths) ELSE {0} :
          \E write \in IF reaches_embedding(cache_file, file_paths, force_reload)
                           /\ fail_batch = 0
                        THEN WriteOutcomes ELSE {"ok"} :
            \E r \in {load_documents(embeddings_cache, cache_file, file_paths,
                                     force_reload, fail_batch, write)} :
                /\ documents' = r.documents
                /\ embeddings_cache' = r.embeddings_cache
                /\ cache_file' = r.cache_file
                /\ call' = [NoCall EXCEPT !.op = "load", !.file_paths = file_paths,
                                          !.force_reload = force_reload]
                /\ ret' = [r.ret EXCEPT !.follows = Follows(file_paths, force_reload)]
                /\ UNCHANGED <<chunk_in, chunk_out, session_state>>

\* The cache artifact is removed from the cache directory.
DeleteCache ==
    /\ ~Busy
    /\ cache_file # Absent
    /\ cache_file' = Absent
    /\ call' = [NoCall EXCEPT !.op = "delete_cache"]
    /\ ret' = NoRet
    /\ UNCHANGED <<documents, embeddings_cache, chunk_in, chunk_out, session_state>>

\* Another writer replaces the cache artifact.
ReplaceCache ==
    /\ ~Busy
    /\ \E cf \in ForeignArtifacts :
        /\ cache_file' = cf
        /\ call' = [NoCall EXCEPT !.op = "replace_cache"]
        /\ ret' = NoRet
        /\ UNCHANGED <<documents, embeddings_cache, chunk_in, chunk_out, session_state>>

----------------------------------------------------------------------------
(* Cosine similarity.  A score is kept as the exact fraction               *)
(* sign(u.v) * (u.v)^2 / (|u|^2 |v|^2), which orders as the cosine does;   *)
(* den > 0.  A zero vector has similarity 0 to everything (sklearn leaves  *)
(* it unnormalised).                                                       *)

Dot(u, v) == u[1] * v[1] + u[2] * v[2]

cosine_similarity(u, v) ==
    LET d == Dot(u, v)
        n == Dot(u, u) * Dot(v, v)
    IN  IF n = 0 THEN [num |-> 0, den |-> 1]
        ELSE [num |-> IF d < 0 THEN -(d * d) ELSE d * d, den |-> n]

ScoreLess(a, b) == a.num * b.den < b.num * a.den

\* similarities > threshold (line 133): cos > 3/10 iff num/den > 9/100.
AboveThreshold(s) ==
    s.num * threshold_den * threshold_den > threshold_num * threshold_num * s.den

\* The ascending sequence of the members of a finite set of integers.
RECURSIVE Ascending(_)
Ascending(S) ==
    IF S = {} THEN <<>>
    ELSE LET m == CHOOSE x \in S : \A y \in S : x <= y
         IN  <<m>> \o Ascending(S \ {m})

\* np.argsort(scores): an index order that sorts scores ascending.  The
\* default sort is not stable, so equal scores may come in either order.
ArgSorts(scores) ==
    LET n == Len(scores)
    IN  {p \in [1..n -> 1..n] :
            /\ \A i, j \in 1..n : i # j => p[i] # p[j]
            /\ \A i, j \in 1..n : i < j => ~ScoreLess(scores[p[j]], scores[p[i]])}

similarities(embs, qe) == [i \in 1..Len(embs) |-> cosine_similarity(qe.vec, embs[i])]

\* np.where(similarities > threshold)[0], 1-based.
relevant_indices(embs, qe) ==
    LET sims == similarities(embs, qe)
    IN  Ascending({i \in 1..Len(embs) : AboveThreshold(sims[i])})

\* similarities[relevant_indices], the array argsort is given; empty when
\* search returns before it sorts.
relevant_scores(docs, embs, qe) ==
    IF docs = <<>> \/ embs = <<>> \/ ~qe.ok THEN <<>>
    ELSE LET sims == similarities(embs, qe)
             rel == relevant_indices(embs, qe)
         IN  [j \in 1..Len(rel) |-> sims[rel[j]]]

\* top_indices without the final [::-1].
top_indices_ascending(rel, order, top_k) ==
    LET k == Min(top_k, Len(rel))
        picked == PySliceFrom(order, -k)
    IN  [j \in 1..Len(picked) |-> rel[picked[j]]]

\* Lines 139-140: relevant_indices[argsort(...)[-top_k:]][::-1], with order
\* the argsort result.
top_indices(rel, order, top_k) ==
    LET k == Min(top_k, Len(rel))
        picked == PySliceFrom(order, -k)
    IN  Reverse([j \in 1..Len(picked) |-> rel[picked[j]]])

\* search: qe is the embedding service's answer for the query, order the
\* argsort result.  Any exception inside the try block returns [].
search(docs, embs, qe, top_k, order) ==
    IF docs = <<>> \/ embs = <<>>
    THEN [results |-> <<>>, embed_calls |-> 0, embed_failed |-> FALSE]
    ELSE IF ~qe.ok
    THEN [results |-> <<>>, embed_calls |-> 1, embed_failed |-> TRUE]
    ELSE LET sims == similarities(embs, qe)
             rel == relevant_indices(embs, qe)
             top == top_indices(rel, order, top_k)
         IN  [results |->
                IF rel = <<>> THEN <<>>
                ELSE IF \E j \in 1..Len(top) : top[j] > Len(docs) THEN <<>>
                ELSE [j \in 1..Len(top) |-> [text |-> docs[top[j]], score |-> sims[top[j]]]],
              embed_calls |-> 1, embed_failed |-> FALSE]

----------------------------------------------------------------------------
(* Queries and str.lower() *)

UpperCase == <<"A", "B", "C", "D", "E", "F", "G", "H", "I", "J", "K", "L", "M",
               "N", "O", "P", "Q", "R", "S", "T", "U", "V", "W", "X", "Y", "Z">>
LowerCase == <<"a", "b", "c", "d", "e", "f", "g", "h", "i", "j", "k", "l", "m",
               "n", "o", "p", "q", "r", "s", "t", "u", "v", "w", "x", "y", "z">>

Letters == 1..Len(UpperCase)

\* str.lower() on one character: upper-case letters map to lower case,
\* every other character to itself.
LowerChar ==
    [c \in {UpperCase[i] : i \in Letters} \cup {LowerCase[i] : i \in Letters} \cup {" "} |->
        IF \E i \in Letters : UpperCase[i] = c
        THEN LowerCase[CHOOSE i \in Letters : UpperCase[i] = c]
        ELSE c]

lower(s) == [i \in 1..Len(s) |-> LowerChar[s[i]]]

\* pat in s
Contains(s, pat) ==
    \E i \in 1..(Len(s) - Len(pat) + 1) : SubSeq(s, i, i + Len(pat) - 1) = pat

Greetings ==
    { <<"h", "e", "l", "l", "o">>, <<"h", "i">>, <<"h", "e", "y">>,
      <<"g", "r", "e", "e", "t", "i", "n", "g", "s">> }

WhatDoYouDo == <<"w", "h", "a", "t", " ", "d", "o", " ", "y", "o", "u", " ", "d", "o">>
WhoAreYou == <<"w", "h", "o", " ", "a", "r", "e", " ", "y", "o", "u">>

Queries ==
    { <<"H", "i">>,
      <<"t", "h", "i", "s">>,
      <<"h", "e", "y", " ">> \o WhoAreYou,
      <<"W", "H", "O", " ", "A", "R", "E", " ", "Y", "O", "U">>,
      WhatDoYouDo,
      <<"r", "a", "t", "e">> }

\* The caller's conversation: n turns, user and assistant alternating,
\* turn i saying i letters.
Turn(i) ==
    [role |-> IF i % 2 = 1 THEN "user" ELSE "assistant",
     text |-> [k \in 1..i |-> "a"], context |-> <<>>]

Histories == {[i \in 1..n |-> Turn(i)] : n \in 0..MaxHistory}

\* The chat-completion service answers with a text, or fails.
Completions == {[ok |-> TRUE, text |-> "completion"], [ok |-> FALSE, text |-> ""]}

----------------------------------------------------------------------------
(* answer_query *)

GREETING == "greeting template"
CAPABILITY == "capability template"
FALLBACK == "fallback template"
APOLOGY == "apology"

\* no_context_reply matching the query as typed, without lower().
no_context_reply_cased(query) ==
    IF \E g \in Greetings : Contains(query, g) THEN GREETING
    ELSE IF Contains(query, WhatDoYouDo) \/ Contains(query, WhoAreYou) THEN CAPABILITY
    ELSE FALLBACK

\* Lines 154-181: the reply when search returned nothing.
no_context_reply(query) ==
    LET q == lower(query)
    IN  IF \E g \in Greetings : Contains(q, g) THEN GREETING
        ELSE IF Contains(q, WhatDoYouDo) \/ Contains(q, WhoAreYou) THEN CAPABILITY
        ELSE FALLBACK

\* build_messages with the whole history instead of its last five entries.
build_messages_unwindowed(query, chat_history, relevant_docs) ==
    LET context == [i \in 1..Len(relevant_docs) |->
                      [n |-> i, text |-> relevant_docs[i].text]]
    IN  <<[role |-> "system", text |-> <<>>, context |-> <<>>]>>
        \o chat_history
        \o <<[role |-> "user", text |-> query, context |-> context]>>

\* Lines 183-212: the prompt.
build_messages(query, chat_history, relevant_docs) ==
    LET context == [i \in 1..Len(relevant_docs) |->
                      [n |-> i, text |-> relevant_docs[i].text]]
    IN  <<[role |-> "system", text |-> <<>>, context |-> <<>>]>>
        \o (IF chat_history # <<>> THEN PySliceFrom(chat_history, -history_window)
            ELSE <<>>)
        \o <<[role |-> "user", text |-> query, context |-> context]>>

\* answer_query without the except clause of line 223: a failure of the
\* completion call reaches the caller.
answer_query_unguarded(docs, embs, query, chat_history, qe, order, completion) ==
    LET s == search(docs, embs, qe, default_top_k, order)
        relevant_docs == s.results
    IN  IF relevant_docs = <<>>
        THEN [NoRet EXCEPT !.outcome = "returned", !.embed_calls = s.embed_calls,
                           !.embed_failed = s.embed_failed,
                           !.answer = no_context_reply(query)]
        ELSE [NoRet EXCEPT !.outcome = IF completion.ok THEN "returned" ELSE "raised",
                           !.error = IF completion.ok THEN "none" ELSE "CompletionError",
                           !.embed_calls = s.embed_calls,
                           !.results = relevant_docs,
                           !.chat_calls = 1, !.chat_failed = ~completion.ok,
                           !.messages = build_messages(query, chat_history, relevant_docs),
                           !.answer = IF completion.ok THEN completion.text ELSE "none"]

\* The whole call; completion is the chat service's answer.  An exception
\* of the completion call is caught at line 223.
answer_query(docs, embs, query, chat_history, qe, order, completion) ==
    LET s == search(docs, embs, qe, default_top_k, order)
        relevant_docs == s.results
    IN  IF relevant_docs = <<>>
        THEN [NoRet EXCEPT !.outcome = "returned", !.embed_calls = s.embed_calls,
                           !.embed_failed = s.embed_failed,
                           !.answer = no_context_reply(query)]
        ELSE [NoRet EXCEPT !.outcome = "returned", !.embed_calls = s.embed_calls,
                           !.results = relevant_docs,
                           !.chat_calls = 1, !.chat_failed = ~completion.ok,
                           !.messages = build_messages(query, chat_history, relevant_docs),
                           !.answer = IF completion.ok THEN completion.text ELSE APOLOGY]

----------------------------------------------------------------------------
(* The operations of an instance *)

\* __init__ in a new process: empty lists; the cache directory is kept.
Construct ==
    /\ ~Busy
    /\ documents' = <<>>
    /\ embeddings_cache' = <<>>
    /\ call' = [NoCall EXCEPT !.op = "construct"]
    /\ ret' = NoRet
    /\ UNCHANGED <<cache_file, chunk_in, chunk_out, session_state>>

Search ==
    /\ Idle
    /\ \E query \in Queries, top_k \in 0..MaxTopK, qe \in QueryEmbeddings :
        \E order \in ArgSorts(relevant_scores(documents, embeddings_cache, qe)) :
          LET s == search(documents, embeddings_cache, qe, top_k, order)
          IN  /\ call' = [NoCall EXCEPT !.op = "search", !.query = query,
                                        !.top_k = top_k]
              /\ ret' = [NoRet EXCEPT !.outcome = "returned", !.results = s.results,
                                      !.embed_calls = s.embed_calls,
                                      !.embed_failed = s.embed_failed]
              /\ UNCHANGED <<documents, embeddings_cache, cache_file, chunk_in, chunk_out, session_state>>

Answer ==
    /\ Idle
    /\ \E query \in Queries, chat_history \in Histories,
          qe \in QueryEmbeddings, completion \in Completions :
        \E order \in ArgSorts(relevant_scores(documents, embeddings_cache, qe)) :
          /\ call' = [NoCall EXCEPT !.op = "answer", !.query = query,
                                    !.history = chat_history]
          /\ ret' = answer_query(documents, embeddings_cache, query, chat_history,
                                 qe, order, completion)
          /\ UNCHANGED <<documents, embeddings_cache, cache_file, chunk_in, chunk_out, session_state>>

\* The caller takes the result of the last call.
Return ==
    /\ ~Idle
    /\ call' = NoCall
    /\ ret' = NoRet
    /\ UNCHANGED <<documents, embeddings_cache, cache_file, chunk_in, chunk_out, session_state>>

NoChunkIn == [text |-> <<>>, max_tokens |-> default_max_tokens, overlap |-> default_overlap]
NoChunkOut == [state |-> "none", windows |-> <<>>, chunks |-> <<>>]

\* initialize_session_state: no API key, an empty conversation.
NoSession == [api_key |-> FALSE, chat_history |-> <<>>]

Init ==
    /\ documents = <<>>
    /\ embeddings_cache = <<>>
    /\ cache_file = Absent
    /\ call = NoCall
    /\ ret = NoRet
    /\ chunk_in = NoChunkIn
    /\ chunk_out = NoChunkOut
    /\ session_state = NoSession

Next == Load \/ Search \/ Answer \/ Return \/ Construct \/ DeleteCache \/ ReplaceCache

Spec == Init /\ [][Next]_vars

----------------------------------------------------------------------------
(* chunk_text called directly, on every short text and window *)

Texts == UNION {[1..n -> Chars] : n \in 0..MaxTextLen}

InitChunk ==
    /\ documents = <<>>
    /\ embeddings_cache = <<>>
    /\ cache_file = Absent
    /\ call = NoCall
    /\ ret = NoRet
    /\ chunk_in \in [text : Texts, max_tokens : 1..MaxWindow, overlap : 0..(MaxWindow + 1)]
    /\ chunk_out = NoChunkOut
    /\ session_state = NoSession

ChunkText ==
    /\ chunk_out.state = "none"
    /\ LET c == chunk_text(chunk_in.text, chunk_in.max_tokens, chunk_in.overlap)
       IN  chunk_out' = [state |-> IF c.raised THEN "raised" ELSE "returned",
                         windows |-> c.windows, chunks |-> c.chunks]
    /\ UNCHANGED <<documents, embeddings_cache, cache_file, call, ret, chunk_in, session_state>>

NextChunk == ChunkText

SpecChunk == InitChunk /\ [][NextChunk]_vars

----------------------------------------------------------------------------
(* The chat page (src/chat_interface.py) over one instance *)

\* The two files ChatInterface.load_documents names.
doc_paths == <<"api.txt", "guide.txt">>

\* What a user may send: a greeting, a question, blanks.
UserInputs == { <<"H", "i">>, <<"r", "a", "t", "e">>, <<" ", " ">> }

Message(role, content) == [role |-> role, text |-> content, context |-> <<>>]

\* process_user_input running answer_query on the history as it was before
\* the user turn, which is appended afterwards.
process_user_input_calls_first(chat_history, docs, embs, user_input, qe, order, completion) ==
    LET new_user_message == Message("user", user_input)
        r == answer_query(docs, embs, user_input, chat_history, qe, order, completion)
        content == IF r.outcome = "returned" THEN <<r.answer>> ELSE <<"error message">>
    IN  [passed |-> chat_history, ret |-> r,
         chat_history |-> chat_history \o <<new_user_message, Message("assistant", content)>>]

\* Lines 373-405: the user turn is appended, answer_query is called with
\* the input and the session's history, and its reply, or the message of
\* the except clause, is appended as the assistant turn.
process_user_input(chat_history, docs, embs, user_input, qe, order, completion) ==
    LET new_user_message == Message("user", user_input)
        passed == Append(chat_history, new_user_message)
        r == answer_query(docs, embs, user_input, passed, qe, order, completion)
        content == IF r.outcome = "returned" THEN <<r.answer>> ELSE <<"error message">>
    IN  [passed |-> passed, ret |-> r,
         chat_history |-> Append(passed, Message("assistant", content))]

\* The Submit API Key button, shown while no key is set: the key and a new
\* instance are stored, then the documents are loaded.
SubmitApiKey ==
    /\ ~session_state.api_key
    /\ \E fail_batch \in IF reaches_embedding(cache_file, doc_paths, FALSE)
                         THEN 0..Batches(doc_paths) ELSE {0} :
         \E write \in IF reaches_embedding(cache_file, doc_paths, FALSE) /\ fail_batch = 0
                       THEN WriteOutcomes ELSE {"ok"} :
           \E r \in {load_documents(<<>>, cache_file, doc_paths, FALSE, fail_batch, write)} :
               /\ session_state' = [session_state EXCEPT !.api_key = TRUE]
               /\ documents' = r.documents
               /\ embeddings_cache' = r.embeddings_cache
               /\ cache_file' = r.cache_file
               /\ call' = [NoCall EXCEPT !.op = "load", !.file_paths = doc_paths]
               /\ ret' = [r.ret EXCEPT !.follows = "other"]
               /\ UNCHANGED <<chunk_in, chunk_out>>

\* The Send button and the example buttons, shown once a key is set.  An
\* input that is blank after strip() is ignored.
ProcessUserInput ==
    /\ session_state.api_key
    /\ Len(session_state.chat_history) < 2 * MaxTurns
    /\ \E user_input \in {u \in UserInputs : Strip(u) # <<>>},
          qe \in QueryEmbeddings, completion \in Completions :
        \E order \in ArgSorts(relevant_scores(documents, embeddings_cache, qe)) :
          \E p \in {process_user_input(session_state.chat_history, documents,
                                       embeddings_cache, user_input, qe, order,
                                       completion)} :
              /\ session_state' = [session_state EXCEPT !.chat_history = p.chat_history]
              /\ call' = [NoCall EXCEPT !.op = "answer", !.query = user_input,
                                        !.history = p.passed]
              /\ ret' = p.ret
              /\ UNCHANGED <<documents, embeddings_cache, cache_file, chunk_in, chunk_out>>

\* The Clear Chat button, shown while the conversation is not empty.
ClearChat ==
    /\ session_state.chat_history # <<>>
    /\ session_state' = [session_state EXCEPT !.chat_history = <<>>]
    /\ call' = NoCall
    /\ ret' = NoRet
    /\ UNCHANGED <<documents, embeddings_cache, cache_file, chunk_in, chunk_out>>

\* What an earlier session may have left in the cache directory.
LeftArtifacts ==
    {Absent, Corrupt, Pickled(<<<<"a", "b">>>>, <<<<3, 1>>, <<1, 3>>>>)}

\* A new browser session: initialize_session_state has run.
InitChat ==
    /\ documents = <<>>
    /\ embeddings_cache = <<>>
    /\ cache_file \in LeftArtifacts
    /\ call = NoCall
    /\ ret = NoRet
    /\ chunk_in = NoChunkIn
    /\ chunk_out = NoChunkOut
    /\ session_state = NoSession

NextChat == SubmitApiKey \/ ProcessUserInput \/ ClearChat

SpecChat == InitChat /\ [][NextChat]_vars

----------------------------------------------------------------------------
(* Claims *)

LoadDone == call.op = "load"
LoadReturned == LoadDone /\ ret.outcome = "returned"

\* C1: after every load_documents call that returns without raising, the
\* chunk list and the embedding list have equal length, whatever the cache
\* artifact held.
C1_LoadReturnsAligned ==
    LoadReturned => Len(documents) = Len(embeddings_cache)

\* C2: in every reachable state of an instance, also after a load that
\* raised, len(documents) = len(embeddings_cache).
C2_AlwaysAligned == Len(documents) = Len(embeddings_cache)

\* C3: search returns at most top_k results, each with a score above the
\* threshold, for every top_k including 0.
C3_SearchBounded ==
    call.op = "search" =>
        /\ Len(ret.results) <= call.top_k
        /\ \A i \in 1..Len(ret.results) : AboveThreshold(ret.results[i].score)

\* C4: on a loaded store, answer_query returns the apology whenever the
\* embedding call or the chat-completion call failed.
C4_FailureGivesApology ==
    ( /\ call.op = "answer"
      /\ documents # <<>> /\ Len(embeddings_cache) = Len(documents)
      /\ (ret.embed_failed \/ ret.chat_failed) )
    => ret.answer = APOLOGY

OnlyMissingPaths(file_paths) ==
    file_paths # <<>> /\ \A i \in 1..Len(file_paths) : ~Readable(file_paths[i])

\* C5: a load given only nonexistent paths raises the no-documents error
\* and leaves both lists empty, whatever the state before.  Stated for the
\* calls that get to the paths: a call served from the cache artifact
\* returns before it looks at them.
C5_MissingPathsLeaveEmpty ==
    (LoadDone /\ OnlyMissingPaths(call.file_paths) /\ ~ret.cache_hit) =>
        /\ ret.outcome = "raised" /\ ret.error = "ValueError"
        /\ documents = <<>> /\ embeddings_cache = <<>>

ChunkDone == chunk_out.state # "none"
TokenCount == Len(encode(chunk_in.text))
AllTokensDecoded == decode(encode(chunk_in.text))

\* C6 as claimed: a text of N <= max_tokens tokens, with overlap <
\* max_tokens, gives exactly one chunk, the decoding of all N tokens.
C6_OneChunkUpToWindow ==
    (ChunkDone /\ chunk_in.overlap < chunk_in.max_tokens
               /\ TokenCount <= chunk_in.max_tokens) =>
        /\ chunk_out.state = "returned"
        /\ chunk_out.chunks = <<AllTokensDecoded>>

\* C6 as amended: with overlap < max_tokens, a text of 1 <= N <=
\* max_tokens - overlap tokens gives exactly one chunk, the decoding of all
\* N tokens; an empty text gives no chunk; max_tokens - overlap < N <=
\* max_tokens gives the decoding of all N tokens followed by further chunks.
C6_OneChunkUpToStride ==
    (ChunkDone /\ chunk_in.overlap < chunk_in.max_tokens
               /\ TokenCount <= chunk_in.max_tokens) =>
        /\ chunk_out.state = "returned"
        /\ TokenCount = 0 => chunk_out.chunks = <<>>
        /\ TokenCount \in 1..(chunk_in.max_tokens - chunk_in.overlap) =>
              chunk_out.chunks = <<AllTokensDecoded>>
        /\ TokenCount > chunk_in.max_tokens - chunk_in.overlap =>
              /\ Len(chunk_out.chunks) >= 2
              /\ chunk_out.chunks[1] = AllTokensDecoded

\* A text of several tokens, one of them merged, that fits the stride of an
\* overlapping window and came back as one chunk.
C6_Witness ==
    /\ chunk_out.state = "returned"
    /\ chunk_in.overlap >= 1
    /\ TokenCount >= 2 /\ TokenCount < Len(chunk_in.text)
    /\ TokenCount <= chunk_in.max_tokens - chunk_in.overlap
    /\ chunk_out.chunks = <<chunk_in.text>>

\* C7 as claimed: a load with force_reload false that directly follows a
\* load of the same paths with force_reload false that returned leaves the
\* chunk and embedding lists as they were and is served from the cache.
C7_SecondLoadFromCache ==
    [][ ( /\ LoadReturned /\ ~call.force_reload
          /\ call'.op = "load" /\ ~call'.force_reload
          /\ call'.file_paths = call.file_paths )
        => ( /\ documents' = documents
             /\ embeddings_cache' = embeddings_cache
             /\ ret'.outcome = "returned" /\ ret'.cache_hit
             /\ ~ret'.files_read /\ ret'.embed_calls = 0 ) ]_vars

\* C7 as amended: the same, when the first call left the cache artifact
\* behind: it wrote it, or was itself served from it.
C7_SecondLoadFromWrittenCache ==
    [][ ( /\ LoadReturned /\ ~call.force_reload
          /\ ret.cache_hit \/ ret.cache_write = "ok"
          /\ call'.op = "load" /\ ~call'.force_reload
          /\ call'.file_paths = call.file_paths )
        => ( /\ documents' = documents
             /\ embeddings_cache' = embeddings_cache
             /\ ret'.outcome = "returned" /\ ret'.cache_hit
             /\ ~ret'.files_read /\ ret'.embed_calls = 0 ) ]_vars

\* The second of two such loads of two files, served from the artifact the
\* first one wrote.
C7_Witness ==
    /\ LoadReturned /\ ret.follows = "same_load" /\ ret.cache_hit
    /\ Len(call.file_paths) = 2
    /\ documents = read_files(call.file_paths) /\ Len(documents) = 2
    /\ cache_file = Pickled(documents, embeddings_cache)

\* C8: a load with force_reload false that follows the removal of the
\* cache artifact reads and chunks the source files again; when they give
\* chunks it embeds them again, and when that succeeds it returns with one
\* embedding per chunk, in the state a first run with the same service
\* outcomes ends in, and writes the artifact again.
C8_ReloadAfterDelete ==
    [][ ( /\ call.op = "delete_cache"
          /\ call'.op = "load" /\ ~call'.force_reload )
        => ( /\ ~ret'.cache_hit /\ ret'.files_read
             /\ documents' = read_files(call'.file_paths)
             /\ documents' = <<>> <=> ret'.error = "ValueError"
             /\ documents' # <<>> => ret'.embed_calls >= 1
             /\ ret'.outcome = "returned" <=> (documents' # <<>> /\ ~ret'.embed_failed)
             /\ ret'.outcome = "returned" =>
                   /\ embeddings_cache' =
                        [i \in 1..Len(documents') |-> EmbeddingOf(documents'[i])]
                   /\ ret'.cache_write \in WriteOutcomes
                   /\ ret'.cache_write = "ok" =>
                         cache_file' = Pickled(documents', embeddings_cache')
                   /\ \E w \in WriteOutcomes :
                        LET first == load_documents(<<>>, Absent, call'.file_paths,
                                                    FALSE, 0, w)
                        IN  /\ documents' = first.documents
                            /\ embeddings_cache' = first.embeddings_cache
                            /\ cache_file' = first.cache_file ) ]_vars

\* A load after the removal of the artifact that read two files, embedded
\* their chunks and wrote the artifact again.
C8_Witness ==
    /\ LoadReturned /\ ret.follows = "delete_cache" /\ ~call.force_reload
    /\ ret.files_read /\ ret.embed_calls = 1 /\ ret.cache_write = "ok"
    /\ Len(documents) = 2
    /\ cache_file = Pickled(documents, embeddings_cache)

\* C9: for top_k >= 1 the results of search are in non-increasing order of
\* score.
C9_SearchSorted ==
    (call.op = "search" /\ call.top_k >= 1) =>
        \A i \in 1..(Len(ret.results) - 1) :
            ~ScoreLess(ret.results[i].score, ret.results[i + 1].score)

\* A search that returned two results of different scores.
C9_Witness ==
    /\ call.op = "search" /\ call.top_k >= 2
    /\ Len(ret.results) = 2
    /\ ScoreLess(ret.results[2].score, ret.results[1].score)

HasAny(q, pats) == \E pat \in pats : Contains(q, pat)

\* C10: when search yields nothing, answer_query makes no chat-completion
\* call and returns the greeting template if the lower-cased query contains
\* hello, hi, hey or greetings, else the capability template if it contains
\* "what do you do" or "who are you", else the generic fallback, whatever
\* the history.
C10_NoContextTemplates ==
    (call.op = "answer" /\ ret.results = <<>>) =>
        /\ ret.chat_calls = 0 /\ ret.messages = <<>>
        /\ LET q == lower(call.query)
               greets == HasAny(q, { <<"h", "e", "l", "l", "o">>, <<"h", "i">>,
                                     <<"h", "e", "y">>,
                                     <<"g", "r", "e", "e", "t", "i", "n", "g", "s">> })
               asks == HasAny(q, { <<"w", "h", "a", "t", " ", "d", "o", " ",
                                     "y", "o", "u", " ", "d", "o">>,
                                   <<"w", "h", "o", " ", "a", "r", "e", " ",
                                     "y", "o", "u">> })
           IN  /\ greets => ret.answer = GREETING
               /\ (~greets /\ asks) => ret.answer = CAPABILITY
               /\ (~greets /\ ~asks) => ret.answer = FALLBACK

\* An upper-case identity question with a history, on a loaded store whose
\* chunks the query does not match, answered with the capability template.
C10_Witness ==
    /\ call.op = "answer" /\ ret.results = <<>>
    /\ documents # <<>> /\ ~ret.embed_failed /\ ret.embed_calls = 1
    /\ Len(call.history) >= 1
    /\ call.query = <<"W", "H", "O", " ", "A", "R", "E", " ", "Y", "O", "U">>
    /\ ret.answer = CAPABILITY

\* The number of token positions two windows have in common.
Shared(a, b) ==
    Cardinality({i \in a.start..(a.start + Len(a.tokens) - 1) :
                    i \in b.start..(b.start + Len(b.tokens) - 1)})

\* The last n tokens of window a are the first n tokens of window b.
TailIsHead(a, b, n) ==
    /\ Len(a.tokens) >= n /\ Len(b.tokens) >= n
    /\ a.start + Len(a.tokens) - n = b.start
    /\ SubSeq(a.tokens, Len(a.tokens) - n + 1, Len(a.tokens)) = SubSeq(b.tokens, 1, n)

Overlapping == ChunkDone /\ chunk_in.overlap < chunk_in.max_tokens

\* C11 as claimed: with 0 <= overlap < max_tokens, two consecutive chunks
\* share exactly overlap tokens, the last of the earlier being the first of
\* the later, unless the later chunk is the final chunk and shorter than
\* max_tokens.
C11_ConsecutiveShareOverlap ==
    Overlapping =>
        \A k \in 1..(Len(chunk_out.windows) - 1) :
            LET a == chunk_out.windows[k]
                b == chunk_out.windows[k + 1]
            IN  ~(k + 1 = Len(chunk_out.windows) /\ Len(b.tokens) < chunk_in.max_tokens) =>
                    /\ Shared(a, b) = chunk_in.overlap
                    /\ TailIsHead(a, b, chunk_in.overlap)

\* C11 as amended: with 0 <= overlap < max_tokens, two consecutive chunks
\* share exactly overlap tokens, the last of the earlier being the first of
\* the later, unless the later chunk has fewer than overlap tokens; then
\* they share the whole later chunk.  Each chunk is the decoding of its
\* window.
C11_ConsecutiveShareUpToOverlap ==
    Overlapping =>
        /\ Len(chunk_out.chunks) = Len(chunk_out.windows)
        /\ \A k \in 1..Len(chunk_out.windows) :
              chunk_out.chunks[k] = decode(chunk_out.windows[k].tokens)
        /\ \A k \in 1..(Len(chunk_out.windows) - 1) :
              LET a == chunk_out.windows[k]
                  b == chunk_out.windows[k + 1]
              IN  /\ Len(b.tokens) >= chunk_in.overlap =>
                        /\ Shared(a, b) = chunk_in.overlap
                        /\ TailIsHead(a, b, chunk_in.overlap)
                  /\ Len(b.tokens) < chunk_in.overlap =>
                        /\ Shared(a, b) = Len(b.tokens)
                        /\ TailIsHead(a, b, Len(b.tokens))

\* Three chunks of a four-character text with a merged token, at window 3
\* and overlap 2: the first pair shares two tokens, the last two of the
\* first window being the first two of the second.
C11_Witness ==
    /\ chunk_out.state = "returned"
    /\ chunk_in.max_tokens = 3 /\ chunk_in.overlap = 2
    /\ TokenCount = 3 /\ TokenCount < Len(chunk_in.text)
    /\ Len(chunk_out.windows) = 3
    /\ Shared(chunk_out.windows[1], chunk_out.windows[2]) = 2
    /\ TailIsHead(chunk_out.windows[1], chunk_out.windows[2], 2)
    /\ chunk_out.windows[1].tokens # chunk_out.windows[2].tokens

\* The strings answer_query can return: a template, the completion's text,
\* or the apology.
Replies ==
    {GREETING, CAPABILITY, FALLBACK, APOLOGY} \cup {c.text : c \in {d \in Completions : d.ok}}

\* C12: answer_query never raises to its caller: for every store state,
\* every query and history, and every failure of the embedding or the
\* chat-completion service, the call returns a string.
C12_AnswerAlwaysReturns ==
    call.op = "answer" =>
        /\ ret.outcome = "returned" /\ ret.error = "none"
        /\ ret.answer \in Replies

\* A call with a history, on a store whose lists differ in length, whose
\* completion request failed after a successful retrieval.
C12_Witness ==
    /\ call.op = "answer" /\ ret.outcome = "returned"
    /\ Len(call.history) >= 1
    /\ Len(documents) # Len(embeddings_cache)
    /\ ret.chat_failed /\ ret.results # <<>> /\ ret.answer = APOLOGY

\* An artifact that deserializes with a non-empty chunk list and a
\* non-empty embedding list of equal length.
WellFormed(cf) ==
    /\ cf.kind = "dict"
    /\ cf.documents # <<>> /\ cf.embeddings # <<>>
    /\ Len(cf.documents) = Len(cf.embeddings)

\* C13: a load with force_reload false is served from the cache artifact
\* only if the artifact deserializes with non-empty chunk and embedding
\* lists of equal length; on any other artifact it ends with the lists and
\* the outcome of the same load, with some outcomes of the services, from
\* the same state with no artifact present.
C13_MalformedCacheIsMiss ==
    [][ (call'.op = "load" /\ ~call'.force_reload) =>
          /\ ret'.cache_hit => WellFormed(cache_file)
          /\ ~WellFormed(cache_file) =>
                \E fail_batch \in 0..Batches(call'.file_paths), write \in WriteOutcomes :
                    LET miss == load_documents(embeddings_cache, Absent, call'.file_paths,
                                               FALSE, fail_batch, write)
                    IN  /\ documents' = miss.documents
                        /\ embeddings_cache' = miss.embeddings_cache
                        /\ ret'.outcome = miss.ret.outcome
                        /\ ret'.error = miss.ret.error ]_vars

\* C14: when an embedding batch fails during load_documents, the call
\* raises to its caller and the cache artifact is not written: it is after
\* the call exactly what it was before.
C14_FailedEmbeddingKeepsCache ==
    [][ (call'.op = "load" /\ ret'.embed_failed) =>
          /\ ret'.outcome = "raised" /\ ret'.error = "EmbeddingError"
          /\ ret'.cache_write = "none"
          /\ cache_file' = cache_file ]_vars

\* A forced reload of two files whose embedding request failed while an
\* artifact written by an earlier load was on disk: the artifact is still
\* the earlier one, and no embedding is in memory.
C14_Witness ==
    /\ LoadDone /\ call.force_reload /\ ret.embed_failed /\ ret.outcome = "raised"
    /\ Len(documents) = 2 /\ embeddings_cache = <<>>
    /\ cache_file.kind = "dict" /\ WellFormed(cache_file)
    /\ cache_file.documents # documents

\* C15: a chunk_text call with overlap >= max_tokens terminates and raises
\* an error instead of returning a list of chunks, both for overlap =
\* max_tokens and for overlap > max_tokens.
C15_NonPositiveStrideRejected ==
    (ChunkDone /\ chunk_in.overlap >= chunk_in.max_tokens) =>
        chunk_out.state = "raised"

\* Index i comes before index j: a higher score, or an equal score and a
\* smaller index.
RankedBefore(sims, i, j) ==
    \/ ScoreLess(sims[j], sims[i])
    \/ ~ScoreLess(sims[i], sims[j]) /\ ~ScoreLess(sims[j], sims[i]) /\ i < j

\* results is a result the claim allows for a query embedding on an aligned
\* store: min(top_k, number passing) passing chunks, none scoring below a
\* passing chunk left out, by falling score and, at equal scores, rising
\* index.
IsRanked(results, docs, embs, qe, top_k) ==
    IF docs = <<>> \/ embs = <<>> \/ ~qe.ok THEN results = <<>>
    ELSE LET sims == similarities(embs, qe)
             rel == relevant_indices(embs, qe)
             S == {rel[k] : k \in 1..Len(rel)}
             n == Min(top_k, Len(rel))
         IN  \E p \in [1..n -> S] :
                /\ \A a, b \in 1..n : a < b => RankedBefore(sims, p[a], p[b])
                /\ \A i \in S \ {p[a] : a \in 1..n} :
                      \A a \in 1..n : ~ScoreLess(sims[p[a]], sims[i])
                /\ results = [k \in 1..n |-> [text |-> docs[p[k]], score |-> sims[p[k]]]]

\* C16: search returns the min(top_k, number passing the threshold)
\* highest-scoring chunks, by falling score, and of two returned chunks with
\* equal scores the one with the smaller index comes first.  Stated for
\* top_k >= 1 on stores with one embedding per chunk: the result is one so
\* described for some answer of the embedding service.
C16_TiesByAscendingIndex ==
    [][ ( /\ call'.op = "search" /\ call'.top_k >= 1
          /\ Len(documents) = Len(embeddings_cache) )
        => \E qe \in QueryEmbeddings :
              IsRanked(ret'.results, documents, embeddings_cache, qe, call'.top_k) ]_vars

\* The numbered context block of a result list.
Numbered(results) == [i \in 1..Len(results) |-> [n |-> i, text |-> results[i].text]]

\* C17: when search returned results, the messages answer_query sends to
\* the completion service are one system message, then the last
\* min(5, len(history)) entries of the history, oldest first, then one user
\* message with the query and the numbered context: 2 + min(5,
\* len(history)) messages, none of them a history entry older than the
\* last five.
C17_PromptIsSystemWindowUser ==
    (call.op = "answer" /\ ret.results # <<>>) =>
        LET h == call.history
            n == IF Len(h) < 5 THEN Len(h) ELSE 5
            m == ret.messages
        IN  /\ ret.chat_calls = 1
            /\ Len(m) = 2 + n
            /\ m[1].role = "system"
            /\ \A j \in 1..n : m[1 + j] = h[Len(h) - n + j]
            /\ \A j \in 1..(Len(h) - n) : \A k \in 1..Len(m) : m[k] # h[j]
            /\ m[Len(m)] = [role |-> "user", text |-> call.query,
                            context |-> Numbered(ret.results)]

\* A call with a history of six turns and two retrieved chunks: seven
\* messages, the first turn left out.
C17_Witness ==
    /\ call.op = "answer" /\ Len(ret.results) = 2
    /\ Len(call.history) = 6
    /\ Len(ret.messages) = 7
    /\ ret.messages[2] = call.history[2]
    /\ ret.messages[6] = call.history[6]

\* The user turn process_user_input appends for the query of the last call.
CurrentTurn == Message("user", call.query)

\* C18: every answer_query call of process_user_input gets a history whose
\* last entry is the current user turn; when chunks were retrieved, the
\* five-entry window of the prompt therefore holds the current turn and at
\* most four earlier turns, and the query is the text of two user messages
\* of the prompt: the last history entry and the final message.
C18_CurrentTurnInHistory ==
    call.op = "answer" =>
        /\ call.history # <<>>
        /\ call.history[Len(call.history)] = CurrentTurn
        /\ \A j \in 1..(Len(call.history) - 1) :
              call.history[j] = session_state.chat_history[j]
        /\ ret.results # <<>> =>
              LET m == ret.messages
                  n == Len(m)
              IN  /\ n >= 3 /\ n <= 7
                  /\ m[n - 1] = CurrentTurn
                  /\ m[n].role = "user" /\ m[n].text = call.query
                  /\ \A k \in 2..(n - 2) :
                        m[k] = call.history[Len(call.history) - (n - 1) + k]
                  /\ Cardinality({k \in 1..n : m[k].role = "user" /\ m[k].text = call.query}) >= 2

\* The fourth question of a conversation, different from the third, with
\* chunks retrieved: the history passed has seven entries, the prompt holds
\* the last five, the query is in the last two user messages, and the first
\* turn is left out.
C18_Witness ==
    /\ call.op = "answer" /\ ret.results # <<>>
    /\ Len(call.history) = 7 /\ Len(session_state.chat_history) = 8
    /\ Len(ret.messages) = 7
    /\ ret.messages[2] = call.history[3]
    /\ ret.messages[6] = CurrentTurn
    /\ call.history[5].text # call.query
    /\ Cardinality({k \in 1..7 : ret.messages[k].role = "user"
                                   /\ ret.messages[k].text = call.query}) = 2

====
